---- MODULE Spec2Model ----
(***************************************************************************)
(* Lexer and parser of logix-as-a-text.                                    *)
(*                                                                         *)
(* A source is a sequence of one-character strings.  The lexer's cursor    *)
(* `index` is the 0-based offset of src/src/compiler/lexer.rs, so the      *)
(* character under the cursor is src[index + 1].                           *)
(*                                                                         *)
(* Every lexer and parser routine is an operator that returns a record     *)
(*   [st, idx, ...]                                                        *)
(* where idx is the cursor the routine leaves behind and st is how the     *)
(* call ends:                                                              *)
(*   "ok"       the call returned a value (Ok(..) for a Result)            *)
(*   "err"      the call returned Err(..)                                  *)
(*   "panic"    expect/unwrap/assert_eq!/panic! aborted the call           *)
(*   "hang"     the call entered a loop that never advances the cursor     *)
(*   "overflow" the call recursed until the stack was exhausted            *)
(***************************************************************************)
EXTENDS Integers, Sequences, FiniteSets, TLC

VARIABLES src, index, pc, hist, commands, result, interpreter, tree

vars == <<src, index, pc, hist, commands, result, interpreter, tree>>

-----------------------------------------------------------------------------
(* Bounds of the model *)

\* longest source drawn exhaustively from Alphabet
MaxLen == 3
\* number of past lexer calls remembered in hist
MaxHist == 3
\* statements of RootAst.commands that are recorded exactly
MaxCommands == 2
\* call depth at which the stack is exhausted
StackLimit == 4
\* most `as` suffixes of an evaluated cast expression
MaxCasts == 2

-----------------------------------------------------------------------------
(* Characters *)

SP == " "
NL == "\n"
DQ == "\""
BS == "\\"

Digits == {"0", "1", "2", "3", "4", "5", "6", "7", "8", "9"}

Lowers == {"a", "b", "c", "d", "e", "f", "g", "h", "i", "j", "k", "l", "m",
           "n", "o", "p", "q", "r", "s", "t", "u", "v", "w", "x", "y", "z"}

is_ascii_digit(c) == c \in Digits

is_ascii_lowercase(c) == c \in Lowers

\* one representative of every branch of Lexer::next
Alphabet == {SP, NL, "=", "+", "/", "<", ">", "!", DQ, BS, "1", "a", "&"}

RECURSIVE SeqsUpTo(_, _)
SeqsUpTo(S, n) ==
    IF n = 0 THEN {<<>>}
    ELSE LET shorter == SeqsUpTo(S, n - 1)
         IN  shorter \cup {Append(s, c) : s \in shorter, c \in S}

KEYWORDS == { <<"i", "f">>, <<"t", "h", "e", "n">>, <<"e", "l", "s", "e">>,
              <<"e", "l", "s", "e", "i", "f">>, <<"e", "n", "d">>,
              <<"e", "n", "d", "i", "f">>, <<"w", "h", "i", "l", "e">>,
              <<"w", "e", "n", "d">>, <<"f", "o", "r">>,
              <<"m", "a", "t", "c", "h">>, <<"a", "s">> }

-----------------------------------------------------------------------------
(* Tokens: every token has the same three fields, unused ones left empty *)

Tok(type) == [type |-> type, text |-> <<>>, at |-> 0]

TokText(type, text) == [type |-> type, text |-> text, at |-> 0]

TokUnexpected(i, c) == [type |-> "UnexpectedChar", text |-> <<c>>, at |-> i]

NoToken == Tok("none")

\* the result of a lexer routine
LexOk(tok, i) == [st |-> "ok", tok |-> tok, idx |-> i]

LexStop(st, i) == [st |-> st, tok |-> NoToken, idx |-> i]

-----------------------------------------------------------------------------
(* Lexer *)

reached_end(s, i) == i >= Len(s)

\* current_char() is Err past the end; has_char is its is_ok()
has_char(s, i) == i < Len(s)

current_char(s, i) == s[i + 1]

\* an advance_by that steps back once the cursor has left the start
advance_by_backwards(i, step) == IF i = 0 THEN step ELSE i - 1

advance_by(i, step) == i + step

advance(i) == advance_by(i, 1)

\* drain_space that leaves the spaces under the cursor
drain_space_nothing(s, i) == i

RECURSIVE drain_space(_, _)
drain_space(s, i) ==
    IF ~reached_end(s, i) /\ current_char(s, i) = SP
    THEN drain_space(s, i + 1)
    ELSE i

\* [text, idx]: the loop leaves at the end of the source or AT a digit
RECURSIVE scan_digits(_, _, _)
scan_digits(s, i, buf) ==
    IF reached_end(s, i) THEN [text |-> buf, idx |-> i]
    ELSE IF is_ascii_digit(current_char(s, i)) THEN [text |-> buf, idx |-> i]
    ELSE scan_digits(s, i + 1, Append(buf, current_char(s, i)))

\* [text, idx]: the loop leaves at the end of the source or AT a lowercase letter
RECURSIVE scan_lowers(_, _, _)
scan_lowers(s, i, buf) ==
    IF reached_end(s, i) THEN [text |-> buf, idx |-> i]
    ELSE IF is_ascii_lowercase(current_char(s, i)) THEN [text |-> buf, idx |-> i]
    ELSE scan_lowers(s, i + 1, Append(buf, current_char(s, i)))

RECURSIVE scan_comment_content(_, _, _)
scan_comment_content(s, i, buf) ==
    IF ~reached_end(s, i) /\ current_char(s, i) # NL
    THEN scan_comment_content(s, i + 1, Append(buf, current_char(s, i)))
    ELSE [text |-> buf, idx |-> i]

HexDigits == Digits \cup {"A", "B", "C", "D", "E", "F", "a", "b", "c", "d", "e", "f"}

HexValue(c) ==
    CASE c \in Digits -> CHOOSE n \in 0..9 : ToString(n) = c
      [] c \in {"A", "a"} -> 10
      [] c \in {"B", "b"} -> 11
      [] c \in {"C", "c"} -> 12
      [] c \in {"D", "d"} -> 13
      [] c \in {"E", "e"} -> 14
      [] OTHER -> 15

\* the character a one-letter escape denotes
SimpleEscapes == {DQ, BS, "a", "b", "t", "n", "v", "f", "r"}

EscapeChar(c) ==
    CASE c = DQ -> DQ
      [] c = BS -> BS
      [] c = "a" -> "BEL"
      [] c = "b" -> "BS"
      [] c = "t" -> "TAB"
      [] c = "n" -> NL
      [] c = "v" -> "VT"
      [] c = "f" -> "FF"
      [] OTHER -> "CR"

\* the four hexadecimal digits of a \u escape: [st, idx, cp]
RECURSIVE scan_codepoint(_, _, _, _)
scan_codepoint(s, i, n, cp) ==
    IF n = 0 THEN [st |-> "ok", idx |-> i, cp |-> cp]
    ELSE IF ~has_char(s, i) THEN [st |-> "panic", idx |-> i, cp |-> cp]
    ELSE IF current_char(s, i) \notin HexDigits THEN [st |-> "err", idx |-> i, cp |-> cp]
    ELSE scan_codepoint(s, i + 1, n - 1, (cp * 16 + HexValue(current_char(s, i))) % 65536)

SurrogateLow == 55296
SurrogateHigh == 57343

\* [st, idx, text]; entered with the cursor just past the opening quote
RECURSIVE scan_string_loop(_, _, _, _)
scan_string_loop(s, i, buf, in_escape) ==
    IF ~has_char(s, i) THEN [st |-> "panic", idx |-> i, text |-> buf]
    ELSE LET c == current_char(s, i) IN
         IF in_escape
         THEN IF c \in SimpleEscapes
              THEN scan_string_loop(s, i + 1, Append(buf, EscapeChar(c)), FALSE)
              ELSE IF c = "u"
              THEN LET u == scan_codepoint(s, i + 1, 4, 0) IN
                   IF u.st # "ok" THEN [st |-> u.st, idx |-> u.idx, text |-> buf]
                   ELSE IF u.cp >= SurrogateLow /\ u.cp <= SurrogateHigh
                   THEN [st |-> "err", idx |-> u.idx, text |-> buf]
                   ELSE scan_string_loop(s, u.idx, Append(buf, "U+" \o ToString(u.cp)), FALSE)
              ELSE [st |-> "err", idx |-> i, text |-> buf]
         ELSE IF c = DQ THEN [st |-> "ok", idx |-> i, text |-> buf]
              \* the backslash is not consumed: the escape branch sees it again
              ELSE IF c = BS THEN scan_string_loop(s, i, buf, TRUE)
              ELSE IF c = NL THEN [st |-> "err", idx |-> i, text |-> buf]
              \* the character is pushed and the cursor stays: the loop never ends
              ELSE [st |-> "hang", idx |-> i, text |-> buf]

\* scan_string_literal first advances once more, whatever is under the cursor
scan_string_literal(s, i) == scan_string_loop(s, i + 1, <<>>, FALSE)

\* the token for a run of lowercase letters
LowersToken(text) ==
    IF text \in KEYWORDS
    THEN CASE text = <<"v", "a", "r">> -> Tok("VarKeyword")
           [] text = <<"t", "r", "u", "e">> -> Tok("KeywordTrue")
           [] text = <<"f", "a", "l", "s", "e">> -> Tok("KeywordFalse")
           [] text = <<"a", "s">> -> Tok("KeywordAs")
           [] OTHER -> TokText("Reserved", text)
    ELSE TokText("Identifier", text)

SingleCharTokens == {"+", "-", "*", "(", ")", "#", "[", "]", ":", "."}

SingleCharToken(c) ==
    CASE c = "+" -> Tok("SymPlus")
      [] c = "-" -> Tok("SymMinus")
      [] c = "*" -> Tok("SymAsterisk")
      [] c = "(" -> Tok("SymLeftPar")
      [] c = ")" -> Tok("SymRightPar")
      [] c = "#" -> Tok("SymSharp")
      [] c = "[" -> Tok("SymOpenBracket")
      [] c = "]" -> Tok("SymCloseBracket")
      [] c = ":" -> Tok("SymColon")
      [] OTHER -> Tok("SymDot")

\* Lexer::next from cursor i0
LexNext(s, i0) ==
    LET i == drain_space(s, i0) IN
    IF reached_end(s, i) THEN LexOk(Tok("EndOfFile"), i)
    ELSE LET c == current_char(s, i)
             j == advance(i)
         IN
         IF c = NL THEN LexOk(Tok("NewLine"), j)
         ELSE IF c = "=" THEN
              IF ~has_char(s, j) THEN LexStop("panic", j)
              ELSE IF current_char(s, j) = "=" THEN LexOk(Tok("PartEqEq"), advance(j))
              ELSE LexOk(Tok("SymEq"), j)
         ELSE IF c \in SingleCharTokens THEN LexOk(SingleCharToken(c), j)
         ELSE IF c = "/" THEN
              IF ~has_char(s, j) THEN LexStop("panic", j)
              ELSE IF current_char(s, j) = "/"
              THEN LET t == scan_comment_content(s, advance(j), <<>>)
                   IN  LexOk(TokText("Comment", t.text), t.idx)
              ELSE LexOk(Tok("SymSlash"), j)
         ELSE IF c = "<" THEN
              IF ~has_char(s, j) THEN LexStop("panic", j)
              ELSE IF current_char(s, j) = "=" THEN
                   IF ~has_char(s, advance(j)) THEN LexStop("panic", advance(j))
                   ELSE IF current_char(s, advance(j)) = ">" THEN LexOk(Tok("PartLessEqMore"), advance(advance(j)))
                   ELSE LexOk(Tok("PartLessEq"), advance(j))
              \* the second `<` is recognised and left under the cursor
              ELSE IF current_char(s, j) = "<" THEN LexOk(Tok("PartLessLess"), j)
              ELSE LexOk(Tok("SymLess"), j)
         ELSE IF c = ">" THEN
              IF ~has_char(s, j) THEN LexStop("panic", j)
              ELSE IF current_char(s, j) = "=" THEN LexOk(Tok("PartMoreEq"), advance(j))
              \* the second `>` is recognised and left under the cursor
              ELSE IF current_char(s, j) = ">" THEN LexOk(Tok("PartMoreMore"), j)
              ELSE LexOk(Tok("SymMore"), j)
         ELSE IF c = "!" THEN
              IF ~has_char(s, j) THEN LexStop("panic", j)
              ELSE IF current_char(s, j) = "=" THEN LexOk(Tok("PartBangEq"), advance(j))
              ELSE LexOk(Tok("SymBang"), j)
         ELSE IF c = DQ THEN
              LET lit == scan_string_literal(s, j) IN
              \* unwrap() turns the scan's Err into a panic
              IF lit.st = "err" THEN LexStop("panic", lit.idx)
              ELSE IF lit.st # "ok" THEN LexStop(lit.st, lit.idx)
              ELSE LexOk(TokText("StringLiteral", lit.text), advance(lit.idx))
         ELSE IF is_ascii_digit(c) THEN
              LET d == scan_digits(s, i, <<>>)
              IN  LexOk(TokText("Digits", d.text), d.idx)
         ELSE IF is_ascii_lowercase(c) THEN
              LET l == scan_lowers(s, i, <<>>)
              IN  LexOk(LowersToken(l.text), l.idx)
         ELSE LexOk(TokUnexpected(i, c), i)

\* peek() that forgets to write the saved cursor back
LexPeekNoRestore(s, i0) == LexNext(s, i0)

\* peek() that rewinds the cursor to the start of the source
LexPeekRewind(s, i0) ==
    LET r == LexNext(s, i0)
    IN  IF r.st = "ok" THEN LexOk(r.tok, 0) ELSE r

\* Lexer::peek from cursor i0: the cursor is written back only when next() returns
LexPeek(s, i0) ==
    LET current_index == i0
        r == LexNext(s, i0)
    IN  IF r.st = "ok" THEN LexOk(r.tok, current_index) ELSE r

-----------------------------------------------------------------------------
(* Parser results and AST nodes *)

NoValue == [k |-> "none"]

POk(v, i) == [st |-> "ok", idx |-> i, val |-> v]

PStop(st, i) == [st |-> st, idx |-> i, val |-> NoValue]

\* `r?`, and every lexer call: what follows runs only when r returned a value;
\* an Err is returned to the caller, and a call that did not return ends the
\* caller the same way
Then(r, K(_)) == IF r.st = "ok" THEN K(r) ELSE PStop(r.st, r.idx)

\* `if let Ok(x) = r { Ok(x) } else ..`: what follows runs only on Err
OrElse(r, K(_)) == IF r.st = "err" THEN K(r) ELSE r

\* assert_eq!(token, expected): the caller goes on only with the expected token
AssertToken(r, expected, K(_)) ==
    IF r.st # "ok" THEN PStop(r.st, r.idx)
    ELSE IF r.tok # expected THEN PStop("panic", r.idx)
    ELSE K(r)

Propagated(inner) == [k |-> "Propagated", of |-> inner]

\* BinaryOperatorNode::binary
binary(operator, lhs, rhs) == [k |-> "Binary", operator |-> operator, lhs |-> lhs, rhs |-> rhs]

\* Lexer::create(source): what next() and peek() do from every cursor
LexerCreate(s) ==
    [next |-> [i \in 0..Len(s) |-> LexNext(s, i)],
     peek |-> [i \in 0..Len(s) |-> LexPeek(s, i)]]

\* Parser::with_lexer
with_lexer(lexer) == [lexer |-> lexer]

-----------------------------------------------------------------------------
(* Parser, the FromParser rules: statements *)

\* Identifier::read
IdentifierRead(parser, i) ==
    Then(parser.lexer.peek[i], LAMBDA p :
        IF p.tok.type = "Identifier"
        THEN Then(parser.lexer.next[p.idx], LAMBDA n :
                 POk([k |-> "Identifier", name |-> p.tok.text], n.idx))
        ELSE PStop("err", p.idx))

\* MemberPath::read; buf holds the segments read by the earlier iterations
RECURSIVE MemberPathLoop(_, _, _)
MemberPathLoop(parser, i, buf) ==
    Then(parser.lexer.peek[i], LAMBDA p :
        IF p.tok.type # "Identifier" THEN PStop("err", p.idx)
        ELSE Then(parser.lexer.next[p.idx], LAMBDA n :
             Then(parser.lexer.peek[n.idx], LAMBDA q :
                 IF q.tok.type = "SymDot"
                 THEN Then(parser.lexer.next[q.idx], LAMBDA d :
                          MemberPathLoop(parser, d.idx,
                              Append(buf, [k |-> "Identifier", name |-> p.tok.text])))
                 ELSE POk([k |-> "MemberPath",
                           pack |-> Append(buf, [k |-> "Identifier", name |-> p.tok.text])],
                          q.idx))))

MemberPathRead(parser, i) == MemberPathLoop(parser, i, <<>>)

\* IdentifierOrMemberPath::read: the member path is tried only after the
\* identifier rule has returned Err
IdentifierOrMemberPathRead(parser, i) ==
    OrElse(IdentifierRead(parser, i), LAMBDA e1 :
        OrElse(MemberPathRead(parser, e1.idx), LAMBDA e2 :
            PStop("err", e2.idx)))

\* UnresolvedTypeName::read
UnresolvedTypeNameRead(parser, i) ==
    Then(IdentifierOrMemberPathRead(parser, i), LAMBDA a :
        POk([k |-> "UnresolvedTypeName", of |-> a.val], a.idx))

NoTypeTag == [k |-> "None"]

\* Statement::read from `assert_eq!(parser.lexer.next(), Token::SymEq, ..)` on
StatementReadRhs(parser, i, ident, type_tag) ==
    AssertToken(parser.lexer.next[i], Tok("SymEq"), LAMBDA eq :
        Then(IdentifierOrMemberPathRead(parser, eq.idx), LAMBDA node :
            POk([k |-> "NodeDeclaration", identifier |-> ident,
                 type_tag |-> type_tag, rhs |-> node.val], node.idx)))

\* Statement::read
StatementRead(parser, i) ==
    Then(parser.lexer.peek[i], LAMBDA p :
        IF p.tok.type = "VarKeyword"
        THEN Then(parser.lexer.next[p.idx], LAMBDA v :
             Then(parser.lexer.next[v.idx], LAMBDA ident :
                 IF ident.tok.type # "Identifier" THEN PStop("err", ident.idx)
                 ELSE Then(parser.lexer.peek[ident.idx], LAMBDA colon :
                      IF colon.tok = Tok("SymColon")
                      THEN Then(parser.lexer.next[colon.idx], LAMBDA c :
                           Then(UnresolvedTypeNameRead(parser, c.idx), LAMBDA type_tag :
                               StatementReadRhs(parser, type_tag.idx, ident.tok.text,
                                                type_tag.val)))
                      ELSE StatementReadRhs(parser, colon.idx, ident.tok.text, NoTypeTag))))
        ELSE IF p.tok.type = "EndOfFile" THEN POk([k |-> "NoMoreStatements"], p.idx)
        ELSE PStop("err", p.idx))

-----------------------------------------------------------------------------
(* Parser, the FromParser rules: expressions *)

\* First::read: only the identifier branch consumes its token
FirstRead(parser, i) ==
    Then(parser.lexer.peek[i], LAMBDA p :
        CASE p.tok.type = "Identifier" ->
                 Then(parser.lexer.next[p.idx], LAMBDA n :
                     POk([k |-> "Variable", identifier |-> p.tok.text], n.idx))
          [] p.tok.type = "Digits" ->
                 POk([k |-> "IntegralLiteral", sequence |-> p.tok.text], p.idx)
          [] p.tok.type = "StringLiteral" ->
                 POk([k |-> "StringLiteral", sequence |-> p.tok.text], p.idx)
          [] p.tok.type = "KeywordTrue" -> POk([k |-> "True"], p.idx)
          [] p.tok.type = "KeywordFalse" -> POk([k |-> "False"], p.idx)
          [] OTHER -> PStop("err", p.idx))

\* Cast::read entered at call depth d: its first statement is
\* parser.parse::<Cast>(), which is Cast::read again
RECURSIVE CastReadAt(_, _, _)
CastReadAt(parser, i, d) ==
    IF d >= StackLimit THEN PStop("overflow", i)
    ELSE Then(CastReadAt(parser, i, d + 1), LAMBDA first_term :
         Then(parser.lexer.peek[first_term.idx], LAMBDA p :
             IF p.tok = Tok("KeywordAs")
             THEN Then(parser.lexer.next[p.idx], LAMBDA n :
                  Then(UnresolvedTypeNameRead(parser, n.idx), LAMBDA type_name :
                      POk([k |-> "Do", lhs |-> first_term.val, tp |-> type_name.val],
                          type_name.idx)))
             ELSE first_term))

\* Cast::read
CastRead(parser, i) == CastReadAt(parser, i, 0)

MultiplicativeOps(tok) == IF tok = Tok("SymAsterisk") THEN "Multiply" ELSE "Divide"

asterisk_or_slash(tok) == tok = Tok("SymAsterisk") \/ tok = Tok("SymSlash")

\* the operators of Multiplicative::read after its first term; acc is the node
\* built so far (the `if` and the `while` of the rule fold the same way)
RECURSIVE MultiplicativeLoop(_, _, _)
MultiplicativeLoop(parser, i, acc) ==
    Then(parser.lexer.peek[i], LAMBDA operator_token :
        IF asterisk_or_slash(operator_token.tok)
        THEN Then(parser.lexer.next[operator_token.idx], LAMBDA n :
             Then(CastRead(parser, n.idx), LAMBDA new_rhs :
                 MultiplicativeLoop(parser, new_rhs.idx,
                     binary(MultiplicativeOps(operator_token.tok), acc,
                            Propagated(new_rhs.val)))))
        ELSE POk(acc, operator_token.idx))

\* Multiplicative::read
MultiplicativeRead(parser, i) ==
    Then(CastRead(parser, i), LAMBDA first_term :
        MultiplicativeLoop(parser, first_term.idx, Propagated(first_term.val)))

AdditiveOps(tok) == IF tok = Tok("SymPlus") THEN "Add" ELSE "Subtract"

plus_or_minus(tok) == tok = Tok("SymPlus") \/ tok = Tok("SymMinus")

\* the operators of Additive::read after its first term
RECURSIVE AdditiveLoop(_, _, _)
AdditiveLoop(parser, i, acc) ==
    Then(parser.lexer.peek[i], LAMBDA operator_token :
        IF plus_or_minus(operator_token.tok)
        THEN Then(parser.lexer.next[operator_token.idx], LAMBDA n :
             Then(MultiplicativeRead(parser, n.idx), LAMBDA new_rhs :
                 AdditiveLoop(parser, new_rhs.idx,
                     binary(AdditiveOps(operator_token.tok), acc,
                            Propagated(new_rhs.val)))))
        ELSE POk(acc, operator_token.idx))

\* Additive::read
AdditiveRead(parser, i) ==
    Then(MultiplicativeRead(parser, i), LAMBDA first_term :
        AdditiveLoop(parser, first_term.idx, Propagated(first_term.val)))

-----------------------------------------------------------------------------
(* Parser, the FromParser rules: shift, comparison, bitwise and logical levels *)

is_shift_ops(tok) == tok = Tok("PartLessLess") \/ tok = Tok("PartMoreMore")

\* get_operator_from_token of BitwiseShift::read
BitwiseShiftOps(tok) ==
    CASE tok = Tok("PartLessLess") -> "LeftShift"
      [] tok = Tok("PartMoreMore") -> "RightShift"
      [] OTHER -> "excess token"

\* the operators of BitwiseShift::read after its first term
RECURSIVE BitwiseShiftLoop(_, _, _)
BitwiseShiftLoop(parser, i, acc) ==
    Then(parser.lexer.peek[i], LAMBDA operator_token :
        IF is_shift_ops(operator_token.tok)
        THEN Then(parser.lexer.next[operator_token.idx], LAMBDA n :
             Then(AdditiveRead(parser, n.idx), LAMBDA new_rhs :
                 IF BitwiseShiftOps(operator_token.tok) = "excess token"
                 THEN PStop("panic", new_rhs.idx)
                 ELSE BitwiseShiftLoop(parser, new_rhs.idx,
                          binary(BitwiseShiftOps(operator_token.tok), acc, new_rhs.val))))
        ELSE POk(acc, operator_token.idx))

\* BitwiseShift::read
BitwiseShiftRead(parser, i) ==
    Then(AdditiveRead(parser, i), LAMBDA first_term :
        BitwiseShiftLoop(parser, first_term.idx, Propagated(first_term.val)))

\* is_target_ops of RelationCheckExpression::read
RelationIsTargetOps(tok) ==
    \/ tok = Tok("SymMore")
    \/ tok = Tok("SymLess")
    \/ tok = Tok("SymMore")
    \/ tok = Tok("PartMoreEq")
    \/ tok = Tok("PartLessEq")

\* get_operator_from_token of RelationCheckExpression::read
RelationCheckExpressionOps(tok) ==
    CASE tok = Tok("SymMore") -> "More"
      [] tok = Tok("SymLess") -> "Less"
      [] tok = Tok("PartMoreEq") -> "MoreEqual"
      [] tok = Tok("PartLessEq") -> "LessEqual"
      [] tok = Tok("PartLessEqMore") -> "Spaceship"
      [] OTHER -> "excess token"

\* the operators of RelationCheckExpression::read after its first term
RECURSIVE RelationCheckExpressionLoop(_, _, _)
RelationCheckExpressionLoop(parser, i, acc) ==
    Then(parser.lexer.peek[i], LAMBDA operator_token :
        IF RelationIsTargetOps(operator_token.tok)
        THEN Then(parser.lexer.next[operator_token.idx], LAMBDA n :
             Then(BitwiseShiftRead(parser, n.idx), LAMBDA new_rhs :
                 IF RelationCheckExpressionOps(operator_token.tok) = "excess token"
                 THEN PStop("panic", new_rhs.idx)
                 ELSE RelationCheckExpressionLoop(parser, new_rhs.idx,
                          binary(RelationCheckExpressionOps(operator_token.tok), acc, new_rhs.val))))
        ELSE POk(acc, operator_token.idx))

\* RelationCheckExpression::read
RelationCheckExpressionRead(parser, i) ==
    Then(BitwiseShiftRead(parser, i), LAMBDA first_term :
        RelationCheckExpressionLoop(parser, first_term.idx, Propagated(first_term.val)))

\* is_target_ops of EqualityCheckExpression::read
EqualityIsTargetOps(tok) == tok = Tok("PartEqEq") \/ tok = Tok("PartBangEq")

\* get_operator_from_token of EqualityCheckExpression::read
EqualityCheckExpressionOps(tok) ==
    CASE tok = Tok("PartEqEq") -> "Equal"
      [] tok = Tok("PartBangEq") -> "NotEqual"
      [] OTHER -> "excess token"

\* the operators of EqualityCheckExpression::read after its first term
RECURSIVE EqualityCheckExpressionLoop(_, _, _)
EqualityCheckExpressionLoop(parser, i, acc) ==
    Then(parser.lexer.peek[i], LAMBDA operator_token :
        IF EqualityIsTargetOps(operator_token.tok)
        THEN Then(parser.lexer.next[operator_token.idx], LAMBDA n :
             Then(RelationCheckExpressionRead(parser, n.idx), LAMBDA new_rhs :
                 IF EqualityCheckExpressionOps(operator_token.tok) = "excess token"
                 THEN PStop("panic", new_rhs.idx)
                 ELSE EqualityCheckExpressionLoop(parser, new_rhs.idx,
                          binary(EqualityCheckExpressionOps(operator_token.tok), acc, new_rhs.val))))
        ELSE POk(acc, operator_token.idx))

\* EqualityCheckExpression::read
EqualityCheckExpressionRead(parser, i) ==
    Then(RelationCheckExpressionRead(parser, i), LAMBDA first_term :
        EqualityCheckExpressionLoop(parser, first_term.idx, Propagated(first_term.val)))

\* is_target_ops of BitwiseAndExpression::read
BitwiseAndIsTargetOps(tok) == tok = Tok("SymAnd")

\* get_operator_from_token of BitwiseAndExpression::read
BitwiseAndExpressionOp(tok) ==
    CASE tok = Tok("SymAnd") -> "BitwiseAnd"
      [] OTHER -> "excess token"

\* the operators of BitwiseAndExpression::read after its first term
RECURSIVE BitwiseAndExpressionLoop(_, _, _)
BitwiseAndExpressionLoop(parser, i, acc) ==
    Then(parser.lexer.peek[i], LAMBDA operator_token :
        IF BitwiseAndIsTargetOps(operator_token.tok)
        THEN Then(parser.lexer.next[operator_token.idx], LAMBDA n :
             Then(EqualityCheckExpressionRead(parser, n.idx), LAMBDA new_rhs :
                 IF BitwiseAndExpressionOp(operator_token.tok) = "excess token"
                 THEN PStop("panic", new_rhs.idx)
                 ELSE BitwiseAndExpressionLoop(parser, new_rhs.idx,
                          binary(BitwiseAndExpressionOp(operator_token.tok), acc, new_rhs.val))))
        ELSE POk(acc, operator_token.idx))

\* BitwiseAndExpression::read
BitwiseAndExpressionRead(parser, i) ==
    Then(EqualityCheckExpressionRead(parser, i), LAMBDA first_term :
        BitwiseAndExpressionLoop(parser, first_term.idx, Propagated(first_term.val)))

\* is_target_ops of BitwiseXorExpression::read
BitwiseXorIsTargetOps(tok) == tok = Tok("SymCaret")

\* get_operator_from_token of BitwiseXorExpression::read
BitwiseXorExpressionOp(tok) ==
    CASE tok = Tok("SymCaret") -> "BitwiseXor"
      [] OTHER -> "excess token"

\* the operators of BitwiseXorExpression::read after its first term
RECURSIVE BitwiseXorExpressionLoop(_, _, _)
BitwiseXorExpressionLoop(parser, i, acc) ==
    Then(parser.lexer.peek[i], LAMBDA operator_token :
        IF BitwiseXorIsTargetOps(operator_token.tok)
        THEN Then(parser.lexer.next[operator_token.idx], LAMBDA n :
             Then(BitwiseAndExpressionRead(parser, n.idx), LAMBDA new_rhs :
                 IF BitwiseXorExpressionOp(operator_token.tok) = "excess token"
                 THEN PStop("panic", new_rhs.idx)
                 ELSE BitwiseXorExpressionLoop(parser, new_rhs.idx,
                          binary(BitwiseXorExpressionOp(operator_token.tok), acc, new_rhs.val))))
        ELSE POk(acc, operator_token.idx))

\* BitwiseXorExpression::read
BitwiseXorExpressionRead(parser, i) ==
    Then(BitwiseAndExpressionRead(parser, i), LAMBDA first_term :
        BitwiseXorExpressionLoop(parser, first_term.idx, Propagated(first_term.val)))

\* is_target_ops of BitwiseOrExpression::read
BitwiseOrIsTargetOps(tok) == tok = Tok("SymPipe")

\* get_operator_from_token of BitwiseOrExpression::read
BitwiseOrExpressionOp(tok) ==
    CASE tok = Tok("SymPipe") -> "BitwiseOr"
      [] OTHER -> "excess token"

\* the operators of BitwiseOrExpression::read after its first term
RECURSIVE BitwiseOrExpressionLoop(_, _, _)
BitwiseOrExpressionLoop(parser, i, acc) ==
    Then(parser.lexer.peek[i], LAMBDA operator_token :
        IF BitwiseOrIsTargetOps(operator_token.tok)
        THEN Then(parser.lexer.next[operator_token.idx], LAMBDA n :
             Then(BitwiseXorExpressionRead(parser, n.idx), LAMBDA new_rhs :
                 IF BitwiseOrExpressionOp(operator_token.tok) = "excess token"
                 THEN PStop("panic", new_rhs.idx)
                 ELSE BitwiseOrExpressionLoop(parser, new_rhs.idx,
                          binary(BitwiseOrExpressionOp(operator_token.tok), acc, new_rhs.val))))
        ELSE POk(acc, operator_token.idx))

\* BitwiseOrExpression::read
BitwiseOrExpressionRead(parser, i) ==
    Then(BitwiseXorExpressionRead(parser, i), LAMBDA first_term :
        BitwiseOrExpressionLoop(parser, first_term.idx, Propagated(first_term.val)))

\* is_target_ops of LogicalAndExpression::read
LogicalAndIsTargetOps(tok) == tok = Tok("PartAndAnd")

\* get_operator_from_token of LogicalAndExpression::read
LogicalAndExpressionOp(tok) ==
    CASE tok = Tok("PartAndAnd") -> "LogicalAnd"
      [] OTHER -> "excess token"

\* is_target_ops of LogicalOrExpression::read
LogicalOrIsTargetOps(tok) == tok = Tok("PartAndAnd")

\* get_operator_from_token of LogicalOrExpression::read
LogicalOrExpressionOp(tok) ==
    CASE tok = Tok("PartPipePipe") -> "LogicalOr"
      [] OTHER -> "excess token"

\* the right-hand side of `&&` is a LogicalOrExpression, whose terms are
\* LogicalAndExpressions again
RECURSIVE LogicalAndExpressionLoop(_, _, _)
RECURSIVE LogicalAndExpressionRead(_, _)
RECURSIVE LogicalOrExpressionLoop(_, _, _)
RECURSIVE LogicalOrExpressionRead(_, _)

\* the operators of LogicalAndExpression::read after its first term
LogicalAndExpressionLoop(parser, i, acc) ==
    Then(parser.lexer.peek[i], LAMBDA operator_token :
        IF LogicalAndIsTargetOps(operator_token.tok)
        THEN Then(parser.lexer.next[operator_token.idx], LAMBDA n :
             Then(LogicalOrExpressionRead(parser, n.idx), LAMBDA new_rhs :
                 IF LogicalAndExpressionOp(operator_token.tok) = "excess token"
                 THEN PStop("panic", new_rhs.idx)
                 ELSE LogicalAndExpressionLoop(parser, new_rhs.idx,
                          binary(LogicalAndExpressionOp(operator_token.tok), acc, new_rhs.val))))
        ELSE POk(acc, operator_token.idx))

\* LogicalAndExpression::read
LogicalAndExpressionRead(parser, i) ==
    Then(BitwiseOrExpressionRead(parser, i), LAMBDA first_term :
        LogicalAndExpressionLoop(parser, first_term.idx, Propagated(first_term.val)))

\* the operators of LogicalOrExpression::read after its first term
LogicalOrExpressionLoop(parser, i, acc) ==
    Then(parser.lexer.peek[i], LAMBDA operator_token :
        IF LogicalOrIsTargetOps(operator_token.tok)
        THEN Then(parser.lexer.next[operator_token.idx], LAMBDA n :
             Then(LogicalAndExpressionRead(parser, n.idx), LAMBDA new_rhs :
                 IF LogicalOrExpressionOp(operator_token.tok) = "excess token"
                 THEN PStop("panic", new_rhs.idx)
                 ELSE LogicalOrExpressionLoop(parser, new_rhs.idx,
                          binary(LogicalOrExpressionOp(operator_token.tok), acc, new_rhs.val))))
        ELSE POk(acc, operator_token.idx))

\* LogicalOrExpression::read
LogicalOrExpressionRead(parser, i) ==
    Then(LogicalAndExpressionRead(parser, i), LAMBDA first_term :
        LogicalOrExpressionLoop(parser, first_term.idx, Propagated(first_term.val)))

-----------------------------------------------------------------------------
(* Parser, the methods of `impl Parser` *)

RECURSIVE DecimalValue(_)
DecimalValue(text) ==
    IF text = <<>> THEN 0
    ELSE 10 * DecimalValue(SubSeq(text, 1, Len(text) - 1)) + HexValue(text[Len(text)])

\* i32::MAX and i64::MAX, digit by digit
I32MaxDigits == <<"2", "1", "4", "7", "4", "8", "3", "6", "4", "7">>

I64MaxDigits ==
    <<"9", "2", "2", "3", "3", "7", "2", "0", "3", "6", "8", "5", "4", "7", "7", "5", "8", "0", "7">>

\* a digit run without its leading zeros
RECURSIVE StripZeros(_)
StripZeros(text) ==
    IF text # <<>> /\ Head(text) = "0" THEN StripZeros(Tail(text)) ELSE text

\* the number a digit run spells is at most the number max spells
AtMost(text, max) ==
    LET t == StripZeros(text)
    IN  \/ Len(t) < Len(max)
        \/ /\ Len(t) = Len(max)
           /\ \/ t = max
              \/ \E k \in 1..Len(t) :
                    /\ SubSeq(t, 1, k - 1) = SubSeq(max, 1, k - 1)
                    /\ HexValue(t[k]) < HexValue(max[k])

\* str::parse::<i32>() of a digit run: Err when it is empty or out of range
ParseI32Ok(text) ==
    /\ text # <<>>
    /\ \A k \in DOMAIN text : is_ascii_digit(text[k])
    /\ AtMost(text, I32MaxDigits)

\* Parser::parse_int_literal
parse_int_literal(self, i) ==
    Then(self.lexer.next[i], LAMBDA n :
        IF n.tok.type = "Digits" /\ ParseI32Ok(n.tok.text)
        THEN POk(DecimalValue(n.tok.text), n.idx)
        ELSE PStop("err", n.idx))

RECURSIVE parse_first(_, _)
RECURSIVE parse_multiplicative_loop(_, _, _)
RECURSIVE parse_multiplicative(_, _)
RECURSIVE parse_additive_loop(_, _, _)
RECURSIVE parse_additive(_, _)

\* Parser::parse_first
parse_first(self, i) ==
    Then(self.lexer.peek[i], LAMBDA token :
        CASE token.tok.type = "Identifier" ->
                 Then(self.lexer.next[token.idx], LAMBDA n :
                     POk([k |-> "Variable", name |-> token.tok.text], n.idx))
          [] token.tok.type = "Digits" ->
                 Then(parse_int_literal(self, token.idx), LAMBDA parsed :
                     POk([k |-> "IntLiteral", value |-> parsed.val], parsed.idx))
          [] token.tok.type = "SymLeftPar" ->
                 AssertToken(self.lexer.next[token.idx], Tok("SymLeftPar"), LAMBDA open :
                 Then(parse_additive(self, open.idx), LAMBDA inner_expression :
                 AssertToken(self.lexer.next[inner_expression.idx], Tok("SymRightPar"),
                     LAMBDA close :
                         POk([k |-> "Parenthesized", of |-> inner_expression.val],
                             close.idx))))
          [] token.tok.type = "KeywordTrue" ->
                 Then(self.lexer.next[token.idx], LAMBDA n : POk([k |-> "True"], n.idx))
          [] token.tok.type = "KeywordFalse" ->
                 Then(self.lexer.next[token.idx], LAMBDA n : POk([k |-> "False"], n.idx))
          [] OTHER -> PStop("err", token.idx))

MultiplicativeOperatorKind(tok) == IF tok = Tok("SymAsterisk") THEN "Multiple" ELSE "Divide"

\* the operators of Parser::parse_multiplicative after its first term
parse_multiplicative_loop(self, i, acc) ==
    Then(self.lexer.peek[i], LAMBDA operator_token :
        IF asterisk_or_slash(operator_token.tok)
        THEN Then(self.lexer.next[operator_token.idx], LAMBDA n :
             Then(parse_first(self, n.idx), LAMBDA new_rhs :
                 parse_multiplicative_loop(self, new_rhs.idx,
                     binary(MultiplicativeOperatorKind(operator_token.tok), acc,
                            new_rhs.val))))
        ELSE POk(acc, operator_token.idx))

\* Parser::parse_multiplicative
parse_multiplicative(self, i) ==
    Then(parse_first(self, i), LAMBDA first_term :
        parse_multiplicative_loop(self, first_term.idx, first_term.val))

AdditiveOperatorKind(tok) == IF tok = Tok("SymPlus") THEN "Plus" ELSE "Minus"

\* the operators of Parser::parse_additive after its first term
parse_additive_loop(self, i, acc) ==
    Then(self.lexer.peek[i], LAMBDA operator_token :
        IF plus_or_minus(operator_token.tok)
        THEN Then(self.lexer.next[operator_token.idx], LAMBDA n :
             Then(parse_multiplicative(self, n.idx), LAMBDA new_rhs :
                 parse_additive_loop(self, new_rhs.idx,
                     binary(AdditiveOperatorKind(operator_token.tok), acc, new_rhs.val))))
        ELSE POk(acc, operator_token.idx))

\* Parser::parse_additive
parse_additive(self, i) ==
    Then(parse_multiplicative(self, i), LAMBDA first_term :
        parse_additive_loop(self, first_term.idx, first_term.val))

is_relation_operator(tok) ==
    tok.type \in {"PartLessEq", "PartMoreEq", "SymLess", "SymMore", "PartLessEqMore"}

RelationExpressionOperator(tok) ==
    CASE tok.type = "PartLessEq" -> "LessEqual"
      [] tok.type = "PartMoreEq" -> "MoreEqual"
      [] tok.type = "SymLess" -> "Less"
      [] tok.type = "SymMore" -> "More"
      [] OTHER -> "SpaceShip"

\* the operators of Parser::parse_relation_expression after its first term
RECURSIVE parse_relation_loop(_, _, _)
parse_relation_loop(self, i, acc) ==
    Then(self.lexer.peek[i], LAMBDA operator_token :
        IF is_relation_operator(operator_token.tok)
        THEN Then(self.lexer.next[operator_token.idx], LAMBDA n :
             Then(parse_additive(self, n.idx), LAMBDA new_rhs :
                 parse_relation_loop(self, new_rhs.idx,
                     binary(RelationExpressionOperator(operator_token.tok), acc,
                            new_rhs.val))))
        ELSE POk(acc, operator_token.idx))

\* Parser::parse_relation_expression
parse_relation_expression(self, i) ==
    Then(parse_additive(self, i), LAMBDA first_term :
        parse_relation_loop(self, first_term.idx, first_term.val))

is_equality_operator(tok) == tok.type \in {"PartEqEq", "PartBangEq"}

EqualityExpressionOperator(tok) == IF tok.type = "PartEqEq" THEN "Equal" ELSE "NotEqual"

\* the operators of Parser::parse_equality_expression after its first term
RECURSIVE parse_equality_loop(_, _, _)
parse_equality_loop(self, i, acc) ==
    Then(self.lexer.peek[i], LAMBDA operator_token :
        IF is_equality_operator(operator_token.tok)
        THEN Then(self.lexer.next[operator_token.idx], LAMBDA n :
             Then(parse_relation_expression(self, n.idx), LAMBDA new_rhs :
                 parse_equality_loop(self, new_rhs.idx,
                     binary(EqualityExpressionOperator(operator_token.tok), acc,
                            new_rhs.val))))
        ELSE POk(acc, operator_token.idx))

\* Parser::parse_equality_expression
parse_equality_expression(self, i) ==
    Then(parse_relation_expression(self, i), LAMBDA first_term :
        parse_equality_loop(self, first_term.idx, first_term.val))

\* Parser::parse_variable_declaration
parse_variable_declaration(self, i) ==
    AssertToken(self.lexer.next[i], Tok("VarKeyword"), LAMBDA var :
    Then(self.lexer.next[var.idx], LAMBDA ident_token :
        IF ident_token.tok.type # "Identifier" THEN PStop("err", ident_token.idx)
        ELSE AssertToken(self.lexer.next[ident_token.idx], Tok("SymEq"), LAMBDA eq :
             Then(parse_equality_expression(self, eq.idx), LAMBDA expression :
                 POk([k |-> "VariableDeclaration", identifier |-> ident_token.tok.text,
                      expression |-> expression.val], expression.idx)))))

\* Parser::parse_statement from its closing assert_eq! on
parse_statement_end(self, result_) ==
    Then(result_, LAMBDA r :
        AssertToken(self.lexer.next[r.idx], Tok("NewLine"), LAMBDA terminator :
            POk(r.val, terminator.idx)))

\* Parser::parse_statement
parse_statement(self, i) ==
    Then(self.lexer.peek[i], LAMBDA head :
        IF head.tok = Tok("VarKeyword")
        THEN parse_statement_end(self, parse_variable_declaration(self, head.idx))
        ELSE parse_statement_end(self,
                 Then(parse_equality_expression(self, head.idx), LAMBDA expression :
                     POk([k |-> "Print", expression |-> expression.val], expression.idx))))

\* the `while` loop of Parser::parse0 and what follows it
RECURSIVE parse0_loop(_, _, _)
parse0_loop(self, i, statements) ==
    Then(self.lexer.peek[i], LAMBDA p :
        IF p.tok # Tok("EndOfFile")
        THEN Then(parse_statement(self, p.idx), LAMBDA res :
                 parse0_loop(self, res.idx, Append(statements, res.val)))
        ELSE Then(self.lexer.next[p.idx], LAMBDA n :
                 IF n.tok.type \in {"EndOfFile", "NewLine"}
                 THEN POk([k |-> "RootAst", statement |-> statements], n.idx)
                 ELSE PStop("panic", n.idx)))

\* Parser::parse0
parse0(self, i) == parse0_loop(self, i, <<>>)

-----------------------------------------------------------------------------
(* A client of the lexer: any sequence of next() and peek() calls *)

Sources == SeqsUpTo(Alphabet, MaxLen)

\* `"a\tb\n"`, the escapes written with backslashes
Src_StringEscapes == <<DQ, "a", BS, "t", "b", BS, "n", DQ>>

\* `"a"`
Src_StringPlain == <<DQ, "a", DQ>>

\* `"\uD800"`
Src_StringSurrogate == <<DQ, BS, "u", "D", "8", "0", "0", DQ>>

\* `"a`, a line break, `"`: a newline inside the literal
Src_StringNewline == <<DQ, "a", NL, DQ>>

\* `"\q"`: a backslash before a character that is no escape
Src_StringBadEscape == <<DQ, BS, "q", DQ>>

\* `"ab` and `"a`: no closing quote
Src_StringUnterminated == <<DQ, "a", "b">>

Src_StringUnterminatedShort == <<DQ, "a">>

\* `var`, `true`, `as`, `if`, `abc`, `42`
Src_Var == <<"v", "a", "r">>

Src_True == <<"t", "r", "u", "e">>

Src_As == <<"a", "s">>

Src_If == <<"i", "f">>

Src_Abc == <<"a", "b", "c">>

Src_FortyTwo == <<"4", "2">>

LexerSources ==
    { Src_StringEscapes, Src_StringPlain, Src_StringSurrogate, Src_StringNewline,
      Src_StringBadEscape, Src_StringUnterminated, Src_StringUnterminatedShort,
      Src_Var, Src_True, Src_As, Src_If, Src_Abc, Src_FortyTwo }

NoResult == [st |-> "none", idx |-> 0]

\* no TestInterpreter exists while only the lexer or the parser runs
NoInterpreter == [scope |-> <<>>]

\* the last MaxHist calls, oldest first
Remember(h, call) ==
    LET all == Append(h, call)
    IN  IF Len(all) > MaxHist THEN Tail(all) ELSE all

Init ==
    /\ src \in Sources \cup LexerSources
    /\ index = 0
    /\ pc = "ready"
    /\ hist = <<>>
    /\ commands = <<>>
    /\ result = NoResult
    /\ interpreter = NoInterpreter
    /\ tree = NoValue

\* what a call that does not return leaves behind
Stopped(st) == IF st = "hang" THEN "hung" ELSE "panicked"

Call(op, r) ==
    /\ pc = "ready"
    /\ index' = r.idx
    /\ IF r.st = "ok"
       THEN /\ hist' = Remember(hist, [op |-> op, tok |-> r.tok, before |-> index])
            /\ pc' = "ready"
       ELSE /\ hist' = hist
            /\ pc' = Stopped(r.st)
    /\ UNCHANGED <<src, commands, result, interpreter, tree>>

LexerNext == Call("next", LexNext(src, index))

LexerPeek == Call("peek", LexPeek(src, index))

Next == LexerNext \/ LexerPeek

Spec == Init /\ [][Next]_vars

-----------------------------------------------------------------------------
(* Programs and expressions the specification names *)

\* `2 + 3 * 4`
Src_Precedence == <<"2", SP, "+", SP, "3", SP, "*", SP, "4">>

\* `10 - 2 - 3`
Src_SubtractChain == <<"1", "0", SP, "-", SP, "2", SP, "-", SP, "3">>

\* `8 / 4 / 2`
Src_DivideChain == <<"8", SP, "/", SP, "4", SP, "/", SP, "2">>

\* `1 as i32 as i64`
Src_CastChain == <<"1", SP, "a", "s", SP, "i", "3", "2", SP, "a", "s", SP, "i", "6", "4">>

\* `var x: i32 = 1 + 2`
Src_VarDeclaration == <<"v", "a", "r", SP, "x", ":", SP, "i", "3", "2", SP, "=", SP, "1", SP, "+", SP, "2">>

\* `var a = b var c = d`: two declarations on one line
Src_TwoDeclarationsOneLine == <<"v", "a", "r", SP, "a", SP, "=", SP, "b", SP, "v", "a", "r", SP, "c", SP, "=", SP, "d">>

\* `a b`: two expression statements on one line
Src_TwoExpressionsOneLine == <<"a", SP, "b">>

\* `a`: one expression statement, then the end of the input
Src_ExpressionThenEnd == <<"a">>

\* `var x = y`: one declaration, then the end of the input
Src_DeclarationThenEnd == <<"v", "a", "r", SP, "x", SP, "=", SP, "y">>

\* two declarations, each ended by a newline: `var a = b`, `var c = d`
Src_TwoDeclarations ==
    <<"v", "a", "r", SP, "a", SP, "=", SP, "b", NL,
      "v", "a", "r", SP, "c", SP, "=", SP, "d", NL>>

\* `a <=> b`
Src_Spaceship == <<"a", SP, "<", "=", ">", SP, "b">>

\* `a || b`
Src_LogicalOr == <<"a", SP, "|", "|", SP, "b">>

\* `a && b || c`
Src_AndOr == <<"a", SP, "&", "&", SP, "b", SP, "|", "|", SP, "c">>

\* `(1 + 2) * 3`
Src_Parenthesized == <<"(", "1", SP, "+", SP, "2", ")", SP, "*", SP, "3">>

\* `var = 1`: a declaration without its identifier
Src_VarNoIdentifier == <<"v", "a", "r", SP, "=", SP, "1">>

\* `var x 1`: a declaration without its `=`
Src_VarNoEq == <<"v", "a", "r", SP, "x", SP, "1">>

\* `a.b.c`: a dotted type name
Src_DottedPath == <<"a", ".", "b", ".", "c">>

\* a primary followed by another token: `true b`, `false b`, `12 b`
Src_TrueThenB == <<"t", "r", "u", "e", SP, "b">>

Src_FalseThenB == <<"f", "a", "l", "s", "e", SP, "b">>

Src_DigitsThenB == <<"1", "2", SP, "b">>

NamedSources ==
    { Src_Precedence, Src_SubtractChain, Src_DivideChain, Src_CastChain,
      Src_VarDeclaration, Src_TwoDeclarationsOneLine, Src_TwoExpressionsOneLine,
      Src_ExpressionThenEnd, Src_DeclarationThenEnd, Src_TwoDeclarations,
      Src_Spaceship, Src_LogicalOr, Src_AndOr, Src_Parenthesized,
      Src_VarNoIdentifier, Src_VarNoEq, Src_DottedPath,
      Src_TrueThenB, Src_FalseThenB, Src_DigitsThenB }

ParserSources == Sources \cup NamedSources

-----------------------------------------------------------------------------
(* RootAst::read, one iteration of its `while let Ok(..)` loop per step *)

InitRootAst ==
    /\ src \in ParserSources
    /\ index = 0
    /\ pc = "loop"
    /\ hist = <<>>
    /\ commands = <<>>
    /\ result = NoResult
    /\ interpreter = NoInterpreter
    /\ tree = NoValue

\* vec.push: the vector is recorded exactly up to MaxCommands statements; a
\* longer one is recorded as the statements pushed since it last held a
\* multiple of MaxCommands
Push(vec, statement) ==
    IF Len(vec) < MaxCommands THEN Append(vec, statement) ELSE <<statement>>

\* RootAst::read: the loop goes on while Statement::read returns Ok and ends,
\* returning Ok(RootAst), at its first Err
RootAstRead ==
    /\ pc = "loop"
    /\ LET parsed_statement == StatementRead(with_lexer(LexerCreate(src)), index) IN
       /\ index' = parsed_statement.idx
       /\ CASE parsed_statement.st = "ok" ->
                 /\ commands' = Push(commands, parsed_statement.val)
                 /\ pc' = "loop"
                 /\ result' = result
            [] parsed_statement.st = "err" ->
                 /\ commands' = commands
                 /\ pc' = "returned"
                 /\ result' = [st |-> "ok", idx |-> parsed_statement.idx,
                               val |-> [k |-> "RootAst", commands |-> commands],
                               statement |-> "err"]
            [] OTHER ->
                 /\ commands' = commands
                 /\ pc' = Stopped(parsed_statement.st)
                 /\ result' = [st |-> parsed_statement.st, idx |-> parsed_statement.idx,
                               val |-> NoValue, statement |-> parsed_statement.st]
    /\ UNCHANGED <<src, hist, interpreter, tree>>

NextRootAst == RootAstRead

SpecRootAst == InitRootAst /\ [][NextRootAst]_vars

\* the process runs: a loop iteration that can be taken is taken
FairSpecRootAst == SpecRootAst /\ WF_vars(RootAstRead)

-----------------------------------------------------------------------------
(* The parser's rules, each called once on a fresh lexer *)

InitParser ==
    /\ src \in ParserSources
    /\ index = 0
    /\ pc = "ready"
    /\ hist = <<>>
    /\ commands = <<>>
    /\ result = NoResult
    /\ interpreter = NoInterpreter
    /\ tree = NoValue

Run(entry, r) ==
    /\ pc = "ready"
    /\ pc' = "called"
    /\ index' = r.idx
    /\ result' = [entry |-> entry, st |-> r.st, idx |-> r.idx, val |-> r.val]
    /\ UNCHANGED <<src, hist, commands, interpreter, tree>>

RunParse0 == Run("parse0", parse0(with_lexer(LexerCreate(src)), index))

RunParseAdditive == Run("parse_additive", parse_additive(with_lexer(LexerCreate(src)), index))

RunParseMultiplicative == Run("parse_multiplicative", parse_multiplicative(with_lexer(LexerCreate(src)), index))

RunAdditiveRead == Run("Additive::read", AdditiveRead(with_lexer(LexerCreate(src)), index))

RunMultiplicativeRead == Run("Multiplicative::read", MultiplicativeRead(with_lexer(LexerCreate(src)), index))

RunCastRead == Run("Cast::read", CastRead(with_lexer(LexerCreate(src)), index))

RunRelationCheckExpressionRead ==
    Run("RelationCheckExpression::read", RelationCheckExpressionRead(with_lexer(LexerCreate(src)), index))

RunLogicalOrExpressionRead ==
    Run("LogicalOrExpression::read", LogicalOrExpressionRead(with_lexer(LexerCreate(src)), index))

RunFirstRead == Run("First::read", FirstRead(with_lexer(LexerCreate(src)), index))

RunParseFirst == Run("parse_first", parse_first(with_lexer(LexerCreate(src)), index))

RunStatementRead == Run("Statement::read", StatementRead(with_lexer(LexerCreate(src)), index))

RunParseVariableDeclaration ==
    Run("parse_variable_declaration", parse_variable_declaration(with_lexer(LexerCreate(src)), index))

RunUnresolvedTypeNameRead ==
    Run("UnresolvedTypeName::read", UnresolvedTypeNameRead(with_lexer(LexerCreate(src)), index))

NextParser ==
    \/ RunParse0
    \/ RunParseAdditive
    \/ RunParseMultiplicative
    \/ RunAdditiveRead
    \/ RunMultiplicativeRead
    \/ RunCastRead
    \/ RunRelationCheckExpressionRead
    \/ RunLogicalOrExpressionRead
    \/ RunFirstRead
    \/ RunParseFirst
    \/ RunStatementRead
    \/ RunParseVariableDeclaration
    \/ RunUnresolvedTypeNameRead

SpecParser == InitParser /\ [][NextParser]_vars

-----------------------------------------------------------------------------
(* test_interpreter: values, type names, evaluation of First and Cast *)

\* SupportedTypeBox::tag
SupportedTypeTag ==
    {"Bool", "I8", "U8", "I16", "U16", "I32", "U32", "I64", "U64", "F32", "F64",
     "String", "Impulse"}

\* a SupportedTypeBox: the variant and the value it holds, a number v (1 and
\* 0 for true and false) or a text
Box(variant, v) == [tag |-> variant, v |-> v, text |-> <<>>]

BoolBox(b) == Box("Bool", IF b THEN 1 ELSE 0)

StringBox(text) == [tag |-> "String", v |-> 0, text |-> text]

tag(box) == box.tag

\* the result of an evaluation
EOk(box) == [st |-> "ok", val |-> box]

EErr == [st |-> "err", val |-> NoValue]

\* UnresolvedTypeName over a path of identifiers
TypePath(pack) == [k |-> "UnresolvedTypeName", of |-> [k |-> "MemberPath", pack |-> pack]]

\* a join that keeps only the last segment of the path
JoinLast(pack) == IF pack = <<>> THEN <<>> ELSE pack[Len(pack)]

\* .join(".")
RECURSIVE Join(_)
Join(pack) ==
    IF pack = <<>> THEN <<>>
    ELSE IF Len(pack) = 1 THEN pack[1]
    ELSE pack[1] \o <<".">> \o Join(Tail(pack))

NoTag == "None"

\* TestInterpreter::resolve_dynamic
resolve_dynamic(t) ==
    LET name == Join(t.of.pack) IN
    CASE name = <<"b", "o", "o", "l">> -> "Bool"
      [] name = <<"i", "8">> -> "I8"
      [] name = <<"u", "8">> -> "U8"
      [] name = <<"i", "1", "6">> -> "I16"
      [] name = <<"u", "1", "6">> -> "U16"
      [] name = <<"i", "3", "2">> -> "I32"
      [] name = <<"u", "3", "2">> -> "U32"
      [] name = <<"i", "6", "4">> -> "I64"
      [] name = <<"u", "6", "4">> -> "U64"
      [] name = <<"f", "3", "2">> -> "F32"
      [] name = <<"f", "6", "4">> -> "F64"
      [] name = <<"s", "t", "r", "i", "n", "g">> -> "String"
      [] name = <<"i", "m", "p", "u", "l", "s", "e">> -> "Impulse"
      [] OTHER -> NoTag

\* a str::parse::<i64>() that accepts every digit run
ParseI64Unchecked(text) ==
    /\ text # <<>>
    /\ \A k \in DOMAIN text : is_ascii_digit(text[k])

\* str::parse::<i64>() of a digit run: Err when it is empty or out of range
ParseI64Ok(text) ==
    /\ text # <<>>
    /\ \A k \in DOMAIN text : is_ascii_digit(text[k])
    /\ AtMost(text, I64MaxDigits)

\* SupportedTypeBox::I64 of the number a digit run spells; a number beyond
\* i32::MAX is held by its digits
I64Box(text) ==
    IF AtMost(text, I32MaxDigits)
    THEN Box("I64", DecimalValue(text))
    ELSE [tag |-> "I64", v |-> 0, text |-> StripZeros(text)]

\* First::evaluate
FirstEvaluate(first, interp) ==
    CASE first.k = "IntegralLiteral" ->
            IF ParseI64Ok(first.sequence)
            THEN EOk(I64Box(first.sequence))
            ELSE EErr
      [] first.k = "StringLiteral" -> EOk(StringBox(first.sequence))
      [] first.k = "Variable" ->
            IF first.identifier \in DOMAIN interp.scope
            THEN EOk(interp.scope[first.identifier])
            ELSE EErr
      [] first.k = "True" -> EOk(BoolBox(TRUE))
      [] OTHER -> EOk(BoolBox(FALSE))

\* a table of Ok arms that also lets i32 narrow to i16
CastTargetsNarrowing(from) ==
    CASE from = "I8" -> {"I16", "I32", "I64", "F32", "F64"}
      [] from = "U8" -> {"I16", "I32", "I64", "U16", "U32", "U64", "F32", "F64"}
      [] from = "I16" -> {"I32", "I64", "F32", "F64"}
      [] from = "U16" -> {"I32", "I64", "U32", "U64", "F32", "F64"}
      [] from = "I32" -> {"I16", "I64", "F64"}
      [] from = "U32" -> {"I64", "U64", "F64"}
      [] OTHER -> {}

\* the arms of `match type_tag` under each source tag that return Ok
CastTargets(from) ==
    CASE from = "I8" -> {"I16", "I32", "I64", "F32", "F64"}
      [] from = "U8" -> {"I16", "I32", "I64", "U16", "U32", "U64", "F32", "F64"}
      [] from = "I16" -> {"I32", "I64", "F32", "F64"}
      [] from = "U16" -> {"I32", "I64", "U32", "U64", "F32", "F64"}
      [] from = "I32" -> {"I64", "F64"}
      [] from = "U32" -> {"I64", "U64", "F64"}
      [] OTHER -> {}

\* `lhs as T` of the Ok arms: two's complement wrap into a 16 bit T;
\* into a wider T the value is kept, every value of the arm's source type
\* being a value of T
AsNumber(v, target) ==
    CASE target = "I16" -> ((v + 32768) % 65536) - 32768
      [] target = "U16" -> v % 65536
      [] target \in {"I32", "I64", "F32", "F64"} -> v
      [] target \in {"U32", "U64"} /\ v >= 0 -> v

\* `if lhs.tag() == type_tag` that is never taken
same_tag_never(lhs, type_tag) == FALSE

\* `lhs.tag() == type_tag`
same_tag(lhs, type_tag) == tag(lhs) = type_tag

\* Cast::evaluate
RECURSIVE CastEvaluate(_, _)
CastEvaluate(cast, interp) ==
    IF cast.k = "Propagated" THEN FirstEvaluate(cast.of, interp)
    ELSE LET lhs == CastEvaluate(cast.lhs, interp)
             type_tag == resolve_dynamic(cast.tp)
         IN  IF lhs.st # "ok" THEN lhs
             ELSE IF type_tag = NoTag THEN EErr
             ELSE IF same_tag(lhs.val, type_tag) THEN EOk(lhs.val)
             ELSE IF type_tag \in CastTargets(tag(lhs.val))
             THEN EOk(Box(type_tag, AsNumber(lhs.val.v, type_tag)))
             ELSE EErr

-----------------------------------------------------------------------------
(* Cast::evaluate called once on a cast expression *)

\* values a variable of the scope may hold, the extremes of the narrow types
\* among them
BoxValues ==
    { BoolBox(TRUE), BoolBox(FALSE),
      Box("I8", -128), Box("I8", 127), Box("U8", 0), Box("U8", 255),
      Box("I16", -32768), Box("I16", 32767), Box("U16", 65535),
      Box("I32", -1), Box("I32", 2147483647), Box("U32", 0), Box("U32", 2147483647),
      Box("I64", 1), Box("U64", 1), Box("F32", 1), Box("F64", 1),
      StringBox(<<>>), StringBox(<<"a">>) }

VariableX == [k |-> "Identifier", name |-> <<"x">>]

\* the scope is empty or binds x
Interpreters ==
    {NoInterpreter} \cup {[scope |-> [id \in {VariableX} |-> box]] : box \in BoxValues}

\* digit runs that spell i32::MAX + 1 and i64::MAX + 1
BeyondI32 == <<"2", "1", "4", "7", "4", "8", "3", "6", "4", "8">>

BeyondI64 ==
    <<"9", "2", "2", "3", "3", "7", "2", "0", "3", "6", "8", "5", "4", "7", "7", "5", "8", "0", "8">>

Firsts ==
    { [k |-> "Variable", identifier |-> VariableX],
      [k |-> "IntegralLiteral", sequence |-> <<"1">>],
      [k |-> "IntegralLiteral", sequence |-> <<>>],
      [k |-> "IntegralLiteral", sequence |-> BeyondI32],
      [k |-> "IntegralLiteral", sequence |-> BeyondI64],
      [k |-> "StringLiteral", sequence |-> <<"a">>],
      [k |-> "True"] }

\* every name resolve_dynamic knows, one it does not know, and a dotted path
TypeNames ==
    { TypePath(<<name>>) :
        name \in { <<"b", "o", "o", "l">>, <<"i", "8">>, <<"u", "8">>, <<"i", "1", "6">>,
                   <<"u", "1", "6">>, <<"i", "3", "2">>, <<"u", "3", "2">>,
                   <<"i", "6", "4">>, <<"u", "6", "4">>, <<"f", "3", "2">>,
                   <<"f", "6", "4">>, <<"s", "t", "r", "i", "n", "g">>,
                   <<"i", "m", "p", "u", "l", "s", "e">>, <<"i", "1", "2", "8">> } }
    \cup { TypePath(<<(<<"s", "t", "d">>), (<<"i", "8">>)>>) }

\* Cast expressions with up to n `as` suffixes
RECURSIVE CastTrees(_)
CastTrees(n) ==
    IF n = 0 THEN {Propagated(first) : first \in Firsts}
    ELSE LET shorter == CastTrees(n - 1)
         IN  shorter \cup {[k |-> "Do", lhs |-> lhs, tp |-> tp] : lhs \in shorter, tp \in TypeNames}

InitCast ==
    /\ src = <<>>
    /\ index = 0
    /\ pc = "ready"
    /\ hist = <<>>
    /\ commands = <<>>
    /\ result = NoResult
    /\ interpreter \in Interpreters
    /\ tree \in CastTrees(MaxCasts)

EvaluateCast ==
    /\ pc = "ready"
    /\ pc' = "evaluated"
    /\ LET r == CastEvaluate(tree, interpreter)
       IN  result' = [entry |-> "Cast::evaluate", st |-> r.st, idx |-> index, val |-> r.val]
    /\ UNCHANGED <<src, index, hist, commands, interpreter, tree>>

NextCast == EvaluateCast

SpecCast == InitCast /\ [][NextCast]_vars

-----------------------------------------------------------------------------
(* C1, C2 *)

Last(h) == h[Len(h)]

\* C1: a peek() that returns leaves the cursor where it was before the call
C1_PeekRestoresIndex ==
    (hist # <<>> /\ Last(hist).op = "peek") => index = Last(hist).before

\* a peek() has returned from a cursor where next() would have moved it
C1_Witness ==
    /\ hist # <<>>
    /\ Last(hist).op = "peek"
    /\ index > 0
    /\ LexNext(src, index).st = "ok"
    /\ LexNext(src, index).idx > index

\* C2: two consecutive peek() calls return equal tokens, and the next() right
\* after them returns that token too
C2_PeekPeekNext ==
    /\ \A k \in 2..Len(hist) :
          (hist[k - 1].op = "peek" /\ hist[k].op = "peek") => hist[k].tok = hist[k - 1].tok
    /\ \A k \in 3..Len(hist) :
          (hist[k - 2].op = "peek" /\ hist[k - 1].op = "peek" /\ hist[k].op = "next")
              => hist[k].tok = hist[k - 1].tok

\* peek(); peek(); next() have returned in a row, on a token that is not
\* EndOfFile and is followed by a different token
C2_Witness ==
    /\ Len(hist) = 3
    /\ hist[1].op = "peek" /\ hist[2].op = "peek" /\ hist[3].op = "next"
    /\ hist[3].tok.type # "EndOfFile"
    /\ index > hist[3].before
    /\ LexNext(src, index).st = "ok"
    /\ LexNext(src, index).tok # hist[3].tok

-----------------------------------------------------------------------------
(* C3, C4, C8, C10: RootAst::read *)

\* C3: parsing a whole program terminates: RootAst::read returns or fails
C3_ParseTerminates == <>(pc \in {"returned", "panicked"})

\* C4: when a statement fails to lex or parse, the parse of the program
\* returns a failure, not a RootAst of the statements before the error
C4_ErrorAbortsParse ==
    (pc = "returned" /\ result.statement = "err") => result.st = "err"

Src_VarDeclaration_Rhs ==
    binary("Add", [k |-> "IntegralLiteral", sequence |-> <<"1">>],
                  [k |-> "IntegralLiteral", sequence |-> <<"2">>])

\* C8: `var x: i32 = 1 + 2` parses to one NodeDeclaration with identifier x,
\* type annotation i32 and the expression 1 + 2 as right-hand side
C8_VarDeclarationParsed ==
    (src = Src_VarDeclaration /\ pc # "loop") =>
        /\ pc = "returned"
        /\ result.st = "ok"
        /\ Len(result.val.commands) = 1
        /\ result.val.commands[1].k = "NodeDeclaration"
        /\ result.val.commands[1].identifier = <<"x">>
        /\ result.val.commands[1].type_tag.k = "UnresolvedTypeName"
        /\ result.val.commands[1].type_tag.of.name = <<"i", "3", "2">>
        /\ result.val.commands[1].rhs = Src_VarDeclaration_Rhs

\* C10: a source with two statements and no NewLine between them fails to
\* parse; no RootAst is returned for it
C10_MissingNewLineFails ==
    (src \in {Src_TwoDeclarationsOneLine, Src_TwoExpressionsOneLine} /\ pc # "loop") =>
        (pc = "returned" => result.st = "err")

-----------------------------------------------------------------------------
(* C5, C6, C7, C9: the parser's rules *)

IntegralLiteral(text) == Propagated(Propagated([k |-> "IntegralLiteral", sequence |-> text]))

IntLiteral(n) == [k |-> "IntLiteral", value |-> n]

\* C5: `2 + 3 * 4` parses as Add(2, Multiply(3, 4))
C5_MultiplicativeBindsTighter ==
    (pc = "called" /\ src = Src_Precedence) =>
        /\ result.entry = "Additive::read" =>
              /\ result.st = "ok"
              /\ result.val =
                    binary("Add", Propagated(IntegralLiteral(<<"2">>)),
                           Propagated(binary("Multiply", IntegralLiteral(<<"3">>),
                                             IntegralLiteral(<<"4">>))))
        /\ result.entry = "parse_additive" =>
              /\ result.st = "ok"
              /\ result.val =
                    binary("Plus", IntLiteral(2),
                           binary("Multiple", IntLiteral(3), IntLiteral(4)))

\* C6: a chain of operators of one level is consumed whole and folded to the
\* left: `10 - 2 - 3` parses as Subtract(Subtract(10, 2), 3), `8 / 4 / 2` as
\* Divide(Divide(8, 4), 2)
C6_ChainsFoldLeft ==
    /\ (pc = "called" /\ src = Src_SubtractChain) =>
          /\ result.entry = "Additive::read" =>
                /\ result.st = "ok"
                /\ result.idx = Len(src)
                /\ result.val =
                      binary("Subtract",
                             binary("Subtract", Propagated(IntegralLiteral(<<"1", "0">>)),
                                    Propagated(IntegralLiteral(<<"2">>))),
                             Propagated(IntegralLiteral(<<"3">>)))
          /\ result.entry = "parse_additive" =>
                /\ result.st = "ok"
                /\ result.idx = Len(src)
                /\ result.val =
                      binary("Minus", binary("Minus", IntLiteral(10), IntLiteral(2)),
                             IntLiteral(3))
    /\ (pc = "called" /\ src = Src_DivideChain) =>
          /\ result.entry = "Multiplicative::read" =>
                /\ result.st = "ok"
                /\ result.idx = Len(src)
                /\ result.val =
                      binary("Divide",
                             binary("Divide", IntegralLiteral(<<"8">>),
                                    IntegralLiteral(<<"4">>)),
                             IntegralLiteral(<<"2">>))
          /\ result.entry = "parse_multiplicative" =>
                /\ result.st = "ok"
                /\ result.idx = Len(src)
                /\ result.val =
                      binary("Divide", binary("Divide", IntLiteral(8), IntLiteral(4)),
                             IntLiteral(2))

TypeName(text) == [k |-> "UnresolvedTypeName", of |-> [k |-> "Identifier", name |-> text]]

\* C7: `1 as i32 as i64` yields Cast::Do(Cast::Do(1, i32), i64), all of the
\* source consumed
C7_CastChainNestsLeft ==
    (pc = "called" /\ src = Src_CastChain /\ result.entry = "Cast::read") =>
        /\ result.st = "ok"
        /\ result.idx = Len(src)
        /\ result.val =
              [k |-> "Do",
               lhs |-> [k |-> "Do",
                        lhs |-> Propagated([k |-> "IntegralLiteral", sequence |-> <<"1">>]),
                        tp |-> TypeName(<<"i", "3", "2">>)],
               tp |-> TypeName(<<"i", "6", "4">>)]

\* C9: a program whose last statement is followed directly by the end of the
\* input parses successfully
C9_EndOfFileTerminates ==
    (pc = "called" /\ result.entry = "parse0"
        /\ src \in {Src_ExpressionThenEnd, Src_DeclarationThenEnd}) =>
        /\ result.st = "ok"
        /\ Len(result.val.statement) = 1

-----------------------------------------------------------------------------
(* C11: the statements of a program *)

Declaration(name, rhs) ==
    [k |-> "NodeDeclaration", identifier |-> name, type_tag |-> NoTypeTag,
     rhs |-> [k |-> "Identifier", name |-> rhs]]

\* C11: the two newline-terminated declarations `var a = b`, `var c = d`
\* parse to a RootAst holding exactly these two statements, in source order
C11_OneStatementPerDeclaration ==
    (src = Src_TwoDeclarations /\ pc # "loop") =>
        /\ pc = "returned"
        /\ result.st = "ok"
        /\ result.val.commands = <<Declaration(<<"a">>, <<"b">>), Declaration(<<"c">>, <<"d">>)>>

-----------------------------------------------------------------------------
(* C12: the end of the source *)

\* only spaces, or nothing, are left from the cursor on
AtEnd == \A k \in (index + 1)..Len(src) : src[k] = SP

-----------------------------------------------------------------------------
(* C13, C14, C15: string literals *)

\* a lexer call has been made
Called == pc # "ready" \/ hist # <<>>

\* the call made from the start of the source, when it returned
FirstCallReturned(tok) ==
    /\ pc = "ready"
    /\ \A k \in DOMAIN hist : hist[k].before = 0 => hist[k].tok = tok

\* C13: `"a\tb\n"` lexes to the StringLiteral a, TAB, b, LF, and `"a"` to
\* the StringLiteral a
C13_StringLiteralContent ==
    /\ (src = Src_StringEscapes /\ Called) =>
           FirstCallReturned(TokText("StringLiteral", <<"a", "TAB", "b", NL>>))
    /\ (src = Src_StringPlain /\ Called) =>
           FirstCallReturned(TokText("StringLiteral", <<"a">>))

\* C14: lexing `"\uD800"` fails; it returns no token and does not go on
C14_SurrogateRejected ==
    (src = Src_StringSurrogate /\ Called) => (pc = "panicked" /\ hist = <<>>)

\* C15: a string literal with an unescaped newline, an unknown escape or no
\* closing quote ends the call without a token, without a crash and without
\* an endless scan
C15_StringErrorsRaised ==
    (src \in {Src_StringNewline, Src_StringBadEscape, Src_StringUnterminated,
              Src_StringUnterminatedShort} /\ Called) =>
        (pc \notin {"panicked", "hung"} /\ hist = <<>>)

-----------------------------------------------------------------------------
(* C16, C17, C18: operators, words and numbers *)

\* the operators and punctuation of enum Token, each with its spelling
Operators ==
    { [text |-> <<"=">>, type |-> "SymEq"], [text |-> <<"=", "=">>, type |-> "PartEqEq"],
      [text |-> <<"+">>, type |-> "SymPlus"], [text |-> <<"-">>, type |-> "SymMinus"],
      [text |-> <<"*">>, type |-> "SymAsterisk"], [text |-> <<"/">>, type |-> "SymSlash"],
      [text |-> <<"(">>, type |-> "SymLeftPar"], [text |-> <<")">>, type |-> "SymRightPar"],
      [text |-> <<"#">>, type |-> "SymSharp"], [text |-> <<"[">>, type |-> "SymOpenBracket"],
      [text |-> <<"]">>, type |-> "SymCloseBracket"], [text |-> <<":">>, type |-> "SymColon"],
      [text |-> <<".">>, type |-> "SymDot"],
      [text |-> <<"<">>, type |-> "SymLess"], [text |-> <<"<", "=">>, type |-> "PartLessEq"],
      [text |-> <<">">>, type |-> "SymMore"], [text |-> <<">", "=">>, type |-> "PartMoreEq"],
      [text |-> <<"!", "=">>, type |-> "PartBangEq"], [text |-> <<"!">>, type |-> "SymBang"],
      [text |-> <<"<", "=", ">">>, type |-> "PartLessEqMore"],
      [text |-> <<"<", "<">>, type |-> "PartLessLess"],
      [text |-> <<">", ">">>, type |-> "PartMoreMore"],
      [text |-> <<"&">>, type |-> "SymAnd"], [text |-> <<"&", "&">>, type |-> "PartAndAnd"],
      [text |-> <<"^">>, type |-> "SymCaret"],
      [text |-> <<"|">>, type |-> "SymPipe"], [text |-> <<"|", "|">>, type |-> "PartPipePipe"] }

\* the source from cursor i on, leading spaces dropped
Rest(s, i) == SubSeq(s, drain_space(s, i) + 1, Len(s))

IsPrefix(p, s) == Len(p) <= Len(s) /\ SubSeq(s, 1, Len(p)) = p

OperatorsAt(rest) == {o \in Operators : IsPrefix(o.text, rest)}

LongestOperator(rest) ==
    CHOOSE o \in OperatorsAt(rest) : \A other \in OperatorsAt(rest) : Len(other.text) <= Len(o.text)

\* `//` starts a comment, it is not two operators
AtOperator(rest) == OperatorsAt(rest) # {} /\ ~IsPrefix(<<"/", "/">>, rest)

\* the latest call was a next() that met `what` under the cursor
LastNextMet(what(_)) ==
    /\ hist # <<>>
    /\ Last(hist).op = "next"
    /\ what(Rest(src, Last(hist).before))

\* C16: next() at an operator returns the token of the longest operator that
\* starts there and moves the cursor past exactly that operator; it does not
\* abort at an operator
C16_OperatorTokens ==
    /\ LastNextMet(AtOperator) =>
           LET rest == Rest(src, Last(hist).before)
               o == LongestOperator(rest)
           IN  /\ Last(hist).tok = Tok(o.type)
               /\ index = drain_space(src, Last(hist).before) + Len(o.text)
    /\ (hist = <<>> /\ pc = "panicked") => ~AtOperator(Rest(src, 0))

\* the longest prefix of rest whose characters are all in S
RECURSIVE RunOf(_, _)
RunOf(rest, S) ==
    IF rest # <<>> /\ Head(rest) \in S
    THEN <<Head(rest)>> \o RunOf(Tail(rest), S)
    ELSE <<>>

AtLower(rest) == rest # <<>> /\ is_ascii_lowercase(Head(rest))

AtDigit(rest) == rest # <<>> /\ is_ascii_digit(Head(rest))

\* the token each word stands for, by the arms of the match on the scanned word
WordToken(text) ==
    CASE text = <<"v", "a", "r">> -> Tok("VarKeyword")
      [] text = <<"t", "r", "u", "e">> -> Tok("KeywordTrue")
      [] text = <<"f", "a", "l", "s", "e">> -> Tok("KeywordFalse")
      [] text = <<"a", "s">> -> Tok("KeywordAs")
      [] text \in KEYWORDS -> TokText("Reserved", text)
      [] OTHER -> TokText("Identifier", text)

\* C17: next() at a lowercase letter returns the one token of the whole run
\* of lowercase letters there (keyword, reserved word or identifier) and
\* leaves the cursor just past the run
C17_LowercaseRunToken ==
    LastNextMet(AtLower) =>
        LET run == RunOf(Rest(src, Last(hist).before), Lowers)
        IN  /\ Last(hist).tok = WordToken(run)
            /\ index = drain_space(src, Last(hist).before) + Len(run)

\* C18: next() at a digit returns Digits carrying the whole run of digits
\* there and leaves the cursor just past the run
C18_DigitRunToken ==
    LastNextMet(AtDigit) =>
        LET run == RunOf(Rest(src, Last(hist).before), Digits)
        IN  /\ Last(hist).tok = TokText("Digits", run)
            /\ index = drain_space(src, Last(hist).before) + Len(run)

-----------------------------------------------------------------------------
(* C19, C20: casts *)

\* the pairs <<source tag, target tag>> of the permitted widening casts
Lattice ==
    ({"I8"} \X {"I16", "I32", "I64", "F32", "F64"})
    \cup ({"U8"} \X {"I16", "I32", "I64", "U16", "U32", "U64", "F32", "F64"})
    \cup ({"I16"} \X {"I32", "I64", "F32", "F64"})
    \cup ({"U16"} \X {"I32", "I64", "U32", "U64", "F32", "F64"})
    \cup ({"I32"} \X {"I64", "F64"})
    \cup ({"U32"} \X {"I64", "U64", "F64"})

\* Cast::evaluate has returned for `lhs as tp`, lhs has a value and tp names a tag
CastEvaluated ==
    /\ pc = "evaluated"
    /\ tree.k = "Do"
    /\ CastEvaluate(tree.lhs, interpreter).st = "ok"
    /\ resolve_dynamic(tree.tp) # NoTag

\* the value of the operand of the outermost cast
Operand == CastEvaluate(tree.lhs, interpreter).val

\* C19: when the operand's tag and the target tag differ, the cast succeeds
\* exactly when the pair is on the widening lattice, and then yields the
\* operand's number under the target tag; every other pair is an error
C19_CastLattice ==
    (CastEvaluated /\ Operand.tag # resolve_dynamic(tree.tp)) =>
        /\ result.st = "ok" <=> <<Operand.tag, resolve_dynamic(tree.tp)>> \in Lattice
        /\ result.st = "ok" => result.val = Box(resolve_dynamic(tree.tp), Operand.v)
        /\ result.st # "ok" => result.st = "err"

\* the u8 255 has been cast to u64, after a first cast that changed its tag
C19_Witness ==
    /\ CastEvaluated
    /\ tree.lhs.k = "Do"
    /\ Operand = Box("U16", 255)
    /\ resolve_dynamic(tree.tp) = "U64"
    /\ result.st = "ok"
    /\ result.val = Box("U64", 255)

\* C20: a cast to the operand's own tag returns the operand unchanged
C20_IdentityCast ==
    (CastEvaluated /\ Operand.tag = resolve_dynamic(tree.tp)) =>
        /\ result.st = "ok"
        /\ result.val = Operand

\* a string held by x has been cast to string
C20_Witness ==
    /\ CastEvaluated
    /\ Operand = StringBox(<<"a">>)
    /\ tree.lhs = Propagated([k |-> "Variable", identifier |-> VariableX])
    /\ resolve_dynamic(tree.tp) = "String"
    /\ result.val = StringBox(<<"a">>)

-----------------------------------------------------------------------------
(* C21: type names *)

\* the one-segment paths of the thirteen primitive type names
PrimitiveTypePaths ==
    { <<name>> :
        name \in { <<"b", "o", "o", "l">>, <<"i", "8">>, <<"u", "8">>, <<"i", "1", "6">>,
                   <<"u", "1", "6">>, <<"i", "3", "2">>, <<"u", "3", "2">>,
                   <<"i", "6", "4">>, <<"u", "6", "4">>, <<"f", "3", "2">>,
                   <<"f", "6", "4">>, <<"s", "t", "r", "i", "n", "g">>,
                   <<"i", "m", "p", "u", "l", "s", "e">> } }

\* C21: a type name resolves to a tag exactly when it is one of the thirteen
\* primitive names, and a cast to a name without a tag is an error whatever
\* its operand is
C21_UnknownTypeNameFails ==
    (pc = "evaluated" /\ tree.k = "Do") =>
        /\ resolve_dynamic(tree.tp) # NoTag <=> tree.tp.of.pack \in PrimitiveTypePaths
        /\ tree.tp.of.pack \notin PrimitiveTypePaths => result.st = "err"

\* a value held by x has been cast to the dotted name std.i8
C21_Witness ==
    /\ pc = "evaluated"
    /\ tree.k = "Do"
    /\ tree.tp = TypePath(<<(<<"s", "t", "d">>), (<<"i", "8">>)>>)
    /\ CastEvaluate(tree.lhs, interpreter) = EOk(Box("I8", 127))
    /\ result.st = "err"

-----------------------------------------------------------------------------
(* C22, C23: the relational and the logical-or level *)

\* C22: <, <=, >, >= and <=> are all operators of the relational rule, and
\* `a <=> b` parses to a relational Binary node with the Spaceship operator,
\* the whole source consumed
C22_SpaceshipIsRelational ==
    /\ \A type \in {"SymLess", "PartLessEq", "SymMore", "PartMoreEq", "PartLessEqMore"} :
          RelationIsTargetOps(Tok(type))
    /\ (pc = "called" /\ src = Src_Spaceship /\ result.entry = "RelationCheckExpression::read") =>
          /\ result.st = "ok"
          /\ result.val.k = "Binary"
          /\ result.val.operator = "Spaceship"
          /\ result.idx = Len(src)

\* C23: `||` is the operator of the logical-or rule: `a || b` parses to a
\* Binary node with the LogicalOr operator and `a && b || c` to a LogicalOr
\* node whose left operand holds the `&&`; the rule never panics
C23_LogicalOrIsLoosest ==
    /\ LogicalOrIsTargetOps(Tok("PartPipePipe"))
    /\ (pc = "called" /\ result.entry = "LogicalOrExpression::read") => result.st # "panic"
    /\ (pc = "called" /\ src \in {Src_LogicalOr, Src_AndOr}
           /\ result.entry = "LogicalOrExpression::read") =>
          /\ result.st = "ok"
          /\ result.val.k = "Binary"
          /\ result.val.operator = "LogicalOr"
          /\ result.idx = Len(src)
          /\ src = Src_AndOr =>
                /\ result.val.lhs.of.k = "Binary"
                /\ result.val.lhs.of.operator = "LogicalAnd"

-----------------------------------------------------------------------------
(* C24: parentheses *)

\* C24: `(1 + 2) * 3` parses, through either parser, to a Multiply node whose
\* left operand is the parenthesized 1 + 2, the whole source consumed; and a
\* primary may start with `(`
C24_ParenthesizedPrimary ==
    /\ (pc = "called" /\ src = Src_Parenthesized
           /\ result.entry \in {"parse_multiplicative", "Multiplicative::read"}) =>
          /\ result.st = "ok"
          /\ result.val.k = "Binary"
          /\ result.val.operator \in {"Multiple", "Multiply"}
          /\ result.idx = Len(src)
    /\ (pc = "called" /\ src = Src_Parenthesized
           /\ result.entry \in {"parse_first", "First::read"}) =>
          /\ result.st = "ok"
          /\ result.idx = 7

-----------------------------------------------------------------------------
(* C26: malformed variable declarations *)

MalformedDeclarations == { Src_VarNoIdentifier, Src_VarNoEq }

\* C26: a `var` declaration that lacks its identifier or its `=` makes the
\* parse return an error result; no entry point of either parser aborts
C26_MalformedDeclarationIsError ==
    (pc = "called" /\ src \in MalformedDeclarations
        /\ result.entry \in {"parse0", "parse_variable_declaration", "Statement::read"}) =>
       result.st = "err"

-----------------------------------------------------------------------------
(* C27: dotted type names *)

\* C27: the type name `a.b.c` is read as the member path a, b, c, every
\* segment and every dot consumed
C27_DottedPathRead ==
    (pc = "called" /\ src = Src_DottedPath /\ result.entry = "UnresolvedTypeName::read") =>
       /\ result.st = "ok"
       /\ result.val = [k |-> "UnresolvedTypeName",
                        of |-> [k |-> "MemberPath", pack |-> << <<"a">>, <<"b">>, <<"c">> >>]]
       /\ result.idx = Len(src)

-----------------------------------------------------------------------------
(* C30: a primary consumes its token *)

\* C30: when a primary is parsed successfully from the start of the source,
\* the lexer is left just behind the one token the primary was made of
C30_PrimaryConsumesItsToken ==
    (pc = "called" /\ result.entry \in {"First::read", "parse_first"} /\ result.st = "ok"
        /\ LexPeek(src, 0).tok.type \in {"Identifier", "Digits", "StringLiteral", "KeywordTrue", "KeywordFalse"}) =>
       /\ result.idx = LexNext(src, 0).idx
       /\ result.idx > drain_space(src, 0)

-----------------------------------------------------------------------------
(* C25: the cursor *)

\* C25: no call moves the cursor back: a next() leaves it where it was or
\* further on, and a peek() that returns puts it back from where its inner
\* next() went to where it was before the call
C25_CursorNeverMovesBack ==
    [][/\ index' >= index
       /\ (hist' # hist /\ Last(hist').op = "peek") =>
              /\ index' = index
              /\ index' <= LexNext(src, index).idx]_vars

\* a next() has moved the cursor forward, and the peek() after it has returned
\* from a cursor where its inner next() moves forward again
C25_Witness ==
    /\ Len(hist) >= 2
    /\ hist[Len(hist) - 1].op = "next"
    /\ hist[Len(hist) - 1].before < index
    /\ Last(hist).op = "peek"
    /\ Last(hist).before = index
    /\ LexNext(src, index).st = "ok"
    /\ LexNext(src, index).idx > index

-----------------------------------------------------------------------------
(* C29: progress of the lexer *)

\* C29: a next() that returns a token other than EndOfFile leaves the cursor
\* strictly further on than it found it
C29_NextMakesProgress ==
    (hist # <<>> /\ Last(hist).op = "next" /\ Last(hist).tok.type # "EndOfFile") =>
       index > Last(hist).before

-----------------------------------------------------------------------------
(* C28: integer literals *)

\* an integer literal, standing alone, has been evaluated
LiteralEvaluated ==
    /\ pc = "evaluated"
    /\ tree.k = "Propagated"
    /\ tree.of.k = "IntegralLiteral"

====
